---- MODULE Spec2Model ----
(***************************************************************************)
(* Model of the audit-management column / department classifier:           *)
(*   scripts/csv_column_classifier.py  (client wrapper, confidence gate)   *)
(*   scripts/run_classifier.py         (main: the orchestrated run)        *)
(*   scripts/xlsx_parser.py            (read_excel_file, clean_dataframe,  *)
(*                                      extract_row_data)                  *)
(*                                                                         *)
(* Python values are modelled as follows.                                  *)
(*   - a table cell is a record [t, n, s]: t = "nan" (missing), "none"     *)
(*     (Python None), "str" (s = the characters), "float" (n = value),     *)
(*     "int" (a Python int) or "int64" (a numpy.int64).                    *)
(*   - a confidence is a record [t, n]: t = "num" (n = hundredths, so      *)
(*     0.6 is 60) or t = "str" (a JSON string, not a number).              *)
(*   - a dict is a function whose DOMAIN is its set of keys.               *)
(*   - a call that may raise returns [raised, called, value].              *)
(***************************************************************************)
EXTENDS Integers, Sequences, FiniteSets, TLC

VARIABLES pc, df, column_classifications, column_mapping, rows_data,
          department_classifications, calls, output_file, caught, lib_call

vars == <<pc, df, column_classifications, column_mapping, rows_data,
          department_classifications, calls, output_file, caught, lib_call>>

(***************************************************************************)
(* Bounds of the model.                                                    *)
(***************************************************************************)
\* columns of the input table
NCols == 2

\* rows of the input table (before all-missing rows are dropped)
NRows == 2

\* rows of the long tables
NLongRows == 9

\* columns of the widest Excel sheet
NSheetCols == 3

\* rows of the longest column whose sample is drawn
NSampleRows == 7

(***************************************************************************)
(* Configuration constants of csv_column_classifier.py.                    *)
(***************************************************************************)
COLUMN_CATEGORIES ==
    {"ticket_number", "title", "description", "department", "priority",
     "status", "due_date", "assigned_to", "created_at", "OTHER"}

FIXED_DEPARTMENTS ==
    {"IT", "Finance", "HR", "Operations", "Legal", "Compliance",
     "Marketing", "Sales", "OTHER"}

\* 0.6, in hundredths
CONFIDENCE_THRESHOLD == 60

\* run_classifier.py: sample_size = min(5, len(rows_data))
ROW_SAMPLE_CAP == 5

(***************************************************************************)
(* Python values.                                                          *)
(***************************************************************************)
NaN == [t |-> "nan", n |-> 0, s |-> <<>>]

None == [t |-> "none", n |-> 0, s |-> <<>>]

PyStr(chars) == [t |-> "str", n |-> 0, s |-> chars]

\* a float cell holding the whole number i (a numeric column with a gap is float64)
PyFloat(i) == [t |-> "float", n |-> i, s |-> <<>>]

\* a Python int, and a numpy.int64 scalar (which json cannot serialize)
PyInt(i) == [t |-> "int", n |-> i, s |-> <<>>]

NumpyInt(i) == [t |-> "int64", n |-> i, s |-> <<>>]

JNum(hundredths) == [t |-> "num", n |-> hundredths]

JNotANumber == [t |-> "str", n |-> 0]

\* bool(v) of a cell value: None, "" and 0.0 are falsy
Truthy(v) ==
    CASE v.t = "none" -> FALSE
      [] v.t = "str"  -> v.s # <<>>
      [] v.t \in {"float", "int", "int64"} -> v.n # 0
      [] OTHER        -> TRUE

\* pd.notna / pd.isna
NotNa(v) == v.t \notin {"nan", "none"}

RECURSIVE LStrip(_)
LStrip(chars) ==
    IF chars # <<>> /\ Head(chars) = " " THEN LStrip(Tail(chars)) ELSE chars

RECURSIVE RStrip(_)
RStrip(chars) ==
    IF chars # <<>> /\ chars[Len(chars)] = " "
    THEN RStrip(SubSeq(chars, 1, Len(chars) - 1))
    ELSE chars

\* str.strip()
Strip(chars) == RStrip(LStrip(chars))

Digit(d) == <<"0", "1", "2", "3", "4", "5", "6", "7", "8", "9">>[d + 1]

RECURSIVE Digits(_)
Digits(i) == IF i < 10 THEN <<Digit(i)>> ELSE Digits(i \div 10) \o <<Digit(i % 10)>>

\* str(v), as a sequence of characters
StrOf(v) ==
    CASE v.t = "str"  -> v.s
      [] v.t = "float" -> Digits(v.n) \o <<".", "0">>
      [] v.t \in {"int", "int64"} -> Digits(v.n)
      [] v.t = "none" -> <<"N", "o", "n", "e">>
      [] OTHER        -> <<"n", "a", "n">>

\* d[k] = v on a dict
DictSet(d, k, v) == [x \in DOMAIN d \cup {k} |-> IF x = k THEN v ELSE d[x]]

Min(a, b) == IF a < b THEN a ELSE b

\* d.get(k, default)
DictGet(d, k, default) == IF k \in DOMAIN d THEN d[k] ELSE default

\* repr of a float given in hundredths: 0.0, 0.6, 0.59, 1.5
FloatRepr(h) ==
    LET a == IF h < 0 THEN -h ELSE h
        sign == IF h < 0 THEN "-" ELSE ""
        frac == IF a % 10 = 0 THEN ToString((a % 100) \div 10)
                ELSE ToString((a % 100) \div 10) \o ToString(a % 10)
    IN sign \o ToString(a \div 100) \o "." \o frac

(***************************************************************************)
(* What one ollama.chat call can produce: the transport raises, or the     *)
(* message content is text that json.loads rejects, or it is a JSON object *)
(* (format='json') with any subset of the expected keys and possibly a     *)
(* key nobody asked for.                                                   *)
(***************************************************************************)
TransportError == [kind |-> "transport_error", obj |-> <<>>]

NotJson == [kind |-> "not_json", obj |-> <<>>]

JsonObject(d) == [kind |-> "object", obj |-> d]

\* {"<key>": label, "confidence": conf} and, when extra, "reason": "..."
ReplyDict(key, label, conf, extra) ==
    [x \in {key, "confidence"} \cup (IF extra THEN {"reason"} ELSE {}) |->
        IF x = key THEN label
        ELSE IF x = "confidence" THEN conf
        ELSE "model said so"]

MalformedReplies(key) ==
    { TransportError,
      NotJson,
      JsonObject(<<>>),
      JsonObject([x \in {key} |-> "OTHER"]),
      JsonObject([x \in {"confidence"} |-> JNum(90)]) }

Confidences == { JNum(-10), JNum(0), JNum(59), JNum(60), JNum(95), JNum(100),
                 JNum(150), JNotANumber }

ColumnLabels == {"title", "department", "OTHER", "severity"}

DepartmentLabels == {"IT", "Finance", "OTHER", "Information Technology"}

KeyedReplies(key, labels, confs) ==
    { JsonObject(ReplyDict(key, l, c, e)) : l \in labels, c \in confs, e \in BOOLEAN }

\* replies offered to a direct call of the library functions
ColumnReplies == MalformedReplies("category") \cup KeyedReplies("category", ColumnLabels, Confidences)

DepartmentReplies == MalformedReplies("department") \cup KeyedReplies("department", DepartmentLabels, Confidences)

\* replies offered to each call made during a run of main
RunColumnReplies ==
    { TransportError,
      JsonObject([x \in {"confidence"} |-> JNum(90)]),
      JsonObject(ReplyDict("category", "title", JNum(60), FALSE)),
      JsonObject(ReplyDict("category", "department", JNum(150), TRUE)),
      JsonObject(ReplyDict("category", "title", JNum(59), FALSE)),
      JsonObject(ReplyDict("category", "description", JNum(80), FALSE)),
      JsonObject(ReplyDict("category", "OTHER", JNum(95), FALSE)),
      JsonObject(ReplyDict("category", "severity", JNum(95), FALSE)),
      JsonObject(ReplyDict("category", "title", JNotANumber, FALSE)) }

RunDepartmentReplies ==
    { NotJson,
      JsonObject(ReplyDict("department", "IT", JNum(60), FALSE)),
      JsonObject(ReplyDict("department", "Finance", JNum(59), FALSE)),
      JsonObject(ReplyDict("department", "IT", JNotANumber, FALSE)) }

(***************************************************************************)
(* Llama3Client                                                            *)
(***************************************************************************)
Returned(d) == [raised |-> FALSE, called |-> TRUE, value |-> d]

Raised == [raised |-> TRUE, called |-> TRUE, value |-> <<>>]

\* variant: the validation looks for the label key only
ClassifyWith_LabelOnly(key, reply) ==
    IF reply.kind # "object" \/ key \notin DOMAIN reply.obj
    THEN Returned([x \in {key, "confidence"} |->
                     IF x = key THEN "OTHER" ELSE JNum(0)])
    ELSE Returned(reply.obj)

\* the body of try ... except Exception shared by both entry points
ClassifyWith(key, reply) ==
    IF reply.kind # "object"
    THEN Returned([x \in {key, "confidence"} |->
                     IF x = key THEN "OTHER" ELSE JNum(0)])
    ELSE IF key \notin DOMAIN reply.obj \/ "confidence" \notin DOMAIN reply.obj
    THEN Returned([x \in {key, "confidence"} |->
                     IF x = key THEN "OTHER" ELSE JNum(0)])
    ELSE Returned(reply.obj)

classify_column(reply) == ClassifyWith("category", reply)

classify_department(reply) == ClassifyWith("department", reply)

(***************************************************************************)
(* process_column, process_department                                      *)
(***************************************************************************)
LowConfidenceReason(conf) == "Low confidence (" \o FloatRepr(conf.n) \o ")"

\* variant: a low confidence is flagged but the label is left as returned
ConfidenceGate_KeepsLabel(result, label) ==
    IF result["confidence"].t # "num"
    THEN Raised
    ELSE IF result["confidence"].n < CONFIDENCE_THRESHOLD
    THEN Returned(DictSet(DictSet(result,
                    "needs_manual_review", TRUE),
                    "reason", LowConfidenceReason(result["confidence"])))
    ELSE Returned(DictSet(result, "needs_manual_review", FALSE))

\* the confidence gate at the end of both processing functions;
\* label is the key the gate overrides
ConfidenceGate(result, label) ==
    IF result["confidence"].t # "num"
    THEN Raised
    ELSE IF result["confidence"].n < CONFIDENCE_THRESHOLD
    THEN Returned(DictSet(DictSet(DictSet(result,
                    label, "OTHER"),
                    "needs_manual_review", TRUE),
                    "reason", LowConfidenceReason(result["confidence"])))
    ELSE Returned(DictSet(result, "needs_manual_review", FALSE))

EmptyColumnResult ==
    [category |-> "OTHER", confidence |-> JNum(0),
     needs_manual_review |-> TRUE, reason |-> "Column is empty"]

dropna(column) == SelectSeq(column, NotNa)

\* the draws non_null_column.sample(n=min(5, len), random_state=1) can make:
\* the positions of min(5, len) values, without replacement
Draws(non_null_column) ==
    { d \in SUBSET (1..Len(non_null_column)) :
        Cardinality(d) = Min(5, Len(non_null_column)) }

\* variant: only the first five values are sampled
SampleValues_HeadOnly(non_null_column, drawn) ==
    { StrOf(non_null_column[p]) : p \in 1..Min(5, Len(non_null_column)) }

\* head(5) and the drawn values, as strings, without duplicates (a set has
\* no order, and the cut to 10 removes nothing from at most 5 + 5 values)
SampleValues(non_null_column, drawn) ==
    { StrOf(non_null_column[p]) :
        p \in (1..Min(5, Len(non_null_column))) \cup drawn }

\* variant: no early return for a column without values
process_column_NoEmptyCheck(df_column, column_name, drawn, reply) ==
    LET r == classify_column(reply)
        gated == IF r.raised THEN Raised ELSE ConfidenceGate(r.value, "category")
    IN [raised |-> gated.raised, called |-> gated.called, value |-> gated.value,
        sample_values |-> SampleValues(dropna(df_column), drawn)]

\* the result carries, next to what the function returns, the sample it
\* put into the prompt; drawn is the draw of the random sample
process_column(df_column, column_name, drawn, reply) ==
    IF Len(dropna(df_column)) = 0
    THEN [raised |-> FALSE, called |-> FALSE, value |-> EmptyColumnResult,
          sample_values |-> {}]
    ELSE LET r == classify_column(reply)
             gated == IF r.raised THEN Raised
                      ELSE ConfidenceGate(r.value, "category")
         IN [raised |-> gated.raised, called |-> gated.called,
             value |-> gated.value,
             sample_values |-> SampleValues(dropna(df_column), drawn)]

DepartmentPresent(department_value) ==
    Truthy(department_value) /\ Strip(StrOf(department_value)) # <<>>

\* f"{value or 'N/A'}"
OrNA(value) == IF Truthy(value) THEN StrOf(value) ELSE <<"N", "/", "A">>

\* variant: the prompt mode tests only that a value was given
create_department_prompt_NotNone(department_value, title, description) ==
    [task_type   |-> IF department_value.t # "none"
                     THEN "normalize and map" ELSE "infer from content",
     original    |-> IF department_value.t # "none"
                     THEN <<"\"">> \o StrOf(department_value) \o <<"\"">>
                     ELSE <<"[", "E", "M", "P", "T", "Y", "]">>,
     title       |-> OrNA(title),
     description |-> OrNA(description)]

\* the parts of the prompt that depend on the row: the task type and the
\* three lines of the input section
create_department_prompt(department_value, title, description) ==
    [task_type   |-> IF DepartmentPresent(department_value)
                     THEN "normalize and map" ELSE "infer from content",
     original    |-> IF DepartmentPresent(department_value)
                     THEN <<"\"">> \o StrOf(department_value) \o <<"\"">>
                     ELSE <<"[", "E", "M", "P", "T", "Y", "]">>,
     title       |-> OrNA(title),
     description |-> OrNA(description)]

\* the result carries, next to what the function returns, the prompt it
\* passed to the client
process_department(row_index, department_value, title, description, reply) ==
    LET prompt == create_department_prompt(department_value, title, description)
        r  == classify_department(reply)
        r1 == DictSet(r.value, "row", row_index)
        r2 == DictSet(r1, "original",
                      IF Truthy(department_value) THEN department_value ELSE PyStr(<<>>))
        r3 == DictSet(r2, "suggested", r2["department"])
        r4 == DictSet(r3, "source",
                      IF DepartmentPresent(department_value)
                      THEN "normalized" ELSE "inferred_from_content")
        gated == IF r.raised THEN Raised ELSE ConfidenceGate(r4, "suggested")
    IN [raised |-> gated.raised, called |-> gated.called,
        value |-> gated.value, prompt |-> prompt]

(***************************************************************************)
(* The table (a pandas DataFrame): columns[c] is the header of column c,   *)
(* index[p] the index label of the p-th row, data[c][p] its cell.          *)
(***************************************************************************)
ColumnKinds == {"empty", "text", "numeric", "integer"}

\* the cell of a column of the given kind in file row r (1-based)
CellOf(kind, r) ==
    CASE kind = "empty" -> NaN
      [] kind = "text"  ->
            (CASE r % 3 = 1 -> PyStr(<<" ", "I", "T", " ">>)
               [] r % 3 = 2 -> PyStr(<<" ">>)
               [] OTHER     -> PyStr(<<"H", "R">>))
      [] kind = "integer" ->
            (CASE r % 3 = 1 -> NumpyInt(3)
               [] r % 3 = 2 -> NumpyInt(0)
               [] OTHER     -> NumpyInt(4))
      [] OTHER ->
            (CASE r % 3 = 1 -> PyFloat(0)
               [] r % 3 = 2 -> NaN
               [] OTHER     -> PyFloat(7))

\* the header of column c as the file has it (with stray whitespace)
HeaderOf(c) == <<" ", "c">> \o Digits(c) \o <<" ">>

MakeTable(kinds) ==
    [columns |-> [c \in 1..NCols |-> HeaderOf(c)],
     index   |-> [p \in 1..NRows |-> p - 1],
     data    |-> [c \in 1..NCols |-> [p \in 1..NRows |-> CellOf(kinds[c], p)]]]

\* the position of a kind in the order the tables list their columns in
KindRank(kind) ==
    CASE kind = "empty" -> 1 [] kind = "text" -> 2 [] kind = "numeric" -> 3
      [] OTHER -> 4

\* one table for each combination of column kinds; the replies a column
\* gets do not depend on its kind, so the kinds are listed in one order
Tables ==
    { MakeTable(kinds) :
        kinds \in { k \in [1..NCols -> ColumnKinds] :
                      \A c \in 1..(NCols - 1) : KindRank(k[c]) <= KindRank(k[c + 1]) } }

\* tables with more rows than main processes, every column of one kind
LongTable(kind, nrows) ==
    [columns |-> [c \in 1..NCols |-> HeaderOf(c)],
     index   |-> [p \in 1..nrows |-> p - 1],
     data    |-> [c \in 1..NCols |-> [p \in 1..nrows |-> CellOf(kind, p)]]]

LongTables ==
    { LongTable(kind, nrows) : kind \in {"text", "numeric"},
                               nrows \in {0, NRows, NLongRows} }

(***************************************************************************)
(* read_excel_file.  A sheet is what pd.read_excel(header=None) gives: a   *)
(* list of rows of cells, under the integer column labels 0, 1, ...        *)
(***************************************************************************)
IsStr(v) == v.t = "str"

RowHasValue(row) == \E idx \in 1..Len(row) : NotNa(row[idx])

\* f"Column_{idx}"
ColumnLabel(idx) == PyStr(<<"C", "o", "l", "u", "m", "n", "_">> \o Digits(idx))

\* sum(1 for val in first_row if isinstance(val, str))
StringCount(first_row) == Cardinality({idx \in 1..Len(first_row) : IsStr(first_row[idx])})

\* the name a header cell gives its column (idx counts from 0)
HeaderName(val, idx) ==
    IF NotNa(val) /\ IsStr(val) /\ Strip(val.s) # <<>>
    THEN PyStr(Strip(val.s))
    ELSE ColumnLabel(idx)

\* variant: half of the cells being strings is enough for a header
read_excel_file_HalfIsEnough(sheet) ==
    LET df_raw == SelectSeq(sheet, RowHasValue)
    IN IF df_raw = <<>>
       THEN [raised |-> TRUE, header |-> FALSE, columns |-> <<>>, rows |-> <<>>]
       ELSE LET first_row == df_raw[1]
            IN IF 2 * StringCount(first_row) >= Len(first_row)
               THEN [raised  |-> FALSE,
                     header  |-> TRUE,
                     columns |-> [c \in 1..Len(first_row) |->
                                    HeaderName(first_row[c], c - 1)],
                     rows    |-> Tail(df_raw)]
               ELSE [raised  |-> FALSE,
                     header  |-> FALSE,
                     columns |-> [c \in 1..Len(first_row) |-> PyInt(c - 1)],
                     rows    |-> df_raw]

\* the DataFrame read_excel_file returns: its column labels and rows, and
\* whether the header branch was taken; raised is the ValueError it raises
\* when the sheet has no row with a value (df_raw.iloc[0] fails)
read_excel_file(sheet) ==
    LET df_raw == SelectSeq(sheet, RowHasValue)
    IN IF df_raw = <<>>
       THEN [raised |-> TRUE, header |-> FALSE, columns |-> <<>>, rows |-> <<>>]
       ELSE LET first_row == df_raw[1]
            IN IF 2 * StringCount(first_row) > Len(first_row)
               THEN [raised  |-> FALSE,
                     header  |-> TRUE,
                     columns |-> [c \in 1..Len(first_row) |->
                                    HeaderName(first_row[c], c - 1)],
                     rows    |-> Tail(df_raw)]
               ELSE [raised  |-> FALSE,
                     header  |-> FALSE,
                     columns |-> [c \in 1..Len(first_row) |-> PyInt(c - 1)],
                     rows    |-> df_raw]

\* clean_dataframe on the column labels: str.strip() when all are strings,
\* else str(col), stripped only when col is a string
clean_column_names(columns) ==
    [c \in 1..Len(columns) |->
        IF IsStr(columns[c]) THEN Strip(columns[c].s) ELSE StrOf(columns[c])]

NumColumns(t) == Len(t.columns)

NumRows(t) == Len(t.index)

\* positions of the rows that dropna(how='all') keeps
RECURSIVE KeptRows(_, _)
KeptRows(t, p) ==
    IF p > NumRows(t) THEN <<>>
    ELSE (IF \E c \in 1..NumColumns(t) : NotNa(t.data[c][p]) THEN <<p>> ELSE <<>>)
         \o KeptRows(t, p + 1)

StripCell(v) == IF v.t = "str" THEN PyStr(Strip(v.s)) ELSE v

clean_dataframe(t) ==
    LET stripped == [c \in 1..NumColumns(t) |->
                        [p \in 1..NumRows(t) |-> StripCell(t.data[c][p])]]
        kept == KeptRows(t, 1)
    IN [columns |-> [c \in 1..NumColumns(t) |-> Strip(t.columns[c])],
        index   |-> [k \in 1..Len(kept) |-> t.index[kept[k]]],
        data    |-> [c \in 1..NumColumns(t) |->
                        [k \in 1..Len(kept) |-> stripped[c][kept[k]]]]]

\* column_mapping.get(role): the header, or None (modelled as the empty
\* header, which `if title_col and ...` treats the same way)
NoColumn == <<>>

MappedColumn(mapping, role) == DictGet(mapping, role, NoColumn)

\* the dtype pandas gives a column with these cells
ColumnDtype(column) ==
    IF \E p \in 1..Len(column) : column[p].t = "str" THEN "object"
    ELSE IF column # <<>> /\ \A p \in 1..Len(column) : column[p].t = "int64"
    THEN "int64"
    ELSE "float64"

\* df.iterrows() gives each row as one Series, so a cell takes the dtype
\* common to the columns: an integer stays a numpy.int64 when every column
\* is int64, becomes a Python int in an object row and a float otherwise
RowCell(t, c, p) ==
    LET dtypes == {ColumnDtype(t.data[k]) : k \in 1..NumColumns(t)}
        v == t.data[c][p]
    IN IF v.t # "int64" \/ dtypes = {"int64"} THEN v
       ELSE IF "object" \in dtypes THEN PyInt(v.n)
       ELSE PyFloat(v.n)

\* variant: a role without a column reads the first column
RowField_FirstColumn(t, p, col) ==
    LET c == IF col # <<>> /\ \E k \in 1..NumColumns(t) : t.columns[k] = col
             THEN CHOOSE k \in 1..NumColumns(t) : t.columns[k] = col
             ELSE 1
    IN IF NotNa(RowCell(t, c, p)) THEN RowCell(t, c, p) ELSE None

\* row[col] if pd.notna(row[col]) else None, or None when col is not usable
RowField(t, p, col) ==
    IF col # <<>> /\ \E c \in 1..NumColumns(t) : t.columns[c] = col
    THEN LET c == CHOOSE c \in 1..NumColumns(t) : t.columns[c] = col
         IN IF NotNa(RowCell(t, c, p)) THEN RowCell(t, c, p) ELSE None
    ELSE None

\* variant: row_index is the position of the row, not its index label
extract_row_data_Positional(t, title_col, description_col, department_col) ==
    [p \in 1..NumRows(t) |->
        [row_index   |-> p - 1,
         title       |-> RowField(t, p, title_col),
         description |-> RowField(t, p, description_col),
         department  |-> RowField(t, p, department_col)]]

extract_row_data(t, title_col, description_col, department_col) ==
    [p \in 1..NumRows(t) |->
        [row_index   |-> t.index[p],
         title       |-> RowField(t, p, title_col),
         description |-> RowField(t, p, description_col),
         department  |-> RowField(t, p, department_col)]]

(***************************************************************************)
(* main: STEP 4, the column mapping, and STEP 6, the report.               *)
(***************************************************************************)
RECURSIVE BuildMappingFrom(_, _, _)
BuildMappingFrom(classifications, i, mapping) ==
    IF i > Len(classifications) THEN mapping
    ELSE BuildMappingFrom(classifications, i + 1,
            IF classifications[i]["category"] # "OTHER"
            THEN DictSet(mapping, classifications[i]["category"],
                         classifications[i]["original_name"])
            ELSE mapping)

RECURSIVE FirstWinsFrom(_, _, _)
FirstWinsFrom(classifications, i, mapping) ==
    IF i > Len(classifications) THEN mapping
    ELSE FirstWinsFrom(classifications, i + 1,
            IF /\ classifications[i]["category"] # "OTHER"
               /\ classifications[i]["category"] \notin DOMAIN mapping
            THEN DictSet(mapping, classifications[i]["category"],
                         classifications[i]["original_name"])
            ELSE mapping)

\* variant: an earlier column keeps its category (first-write-wins)
BuildMapping_FirstWins(classifications) == FirstWinsFrom(classifications, 1, <<>>)

BuildMapping(classifications) == BuildMappingFrom(classifications, 1, <<>>)

\* len([x for x in list if <test>]), given the positions that pass the test
CountOf(positions) == Cardinality(positions)

IsClassified(c) == c["category"] # "OTHER"

NeedsReview(r) == DictGet(r, "needs_manual_review", FALSE)

IsNormalized(d) == d["source"] = "normalized"

IsInferred(d) == d["source"] = "inferred_from_content"

IsReviewFree(r) == ~NeedsReview(r)

\* variant: columns_classified counts the columns that need no review
Statistics_ReviewFree(cols, depts) ==
    [total_columns              |-> Len(cols),
     columns_classified         |-> CountOf({i \in 1..Len(cols) : IsReviewFree(cols[i])}),
     columns_needing_review     |-> CountOf({i \in 1..Len(cols) : NeedsReview(cols[i])}),
     total_rows_processed       |-> Len(depts),
     departments_normalized     |-> CountOf({i \in 1..Len(depts) : IsNormalized(depts[i])}),
     departments_inferred       |-> CountOf({i \in 1..Len(depts) : IsInferred(depts[i])}),
     departments_needing_review |-> CountOf({i \in 1..Len(depts) : NeedsReview(depts[i])})]

Statistics(cols, depts) ==
    [total_columns              |-> Len(cols),
     columns_classified         |-> CountOf({i \in 1..Len(cols) : IsClassified(cols[i])}),
     columns_needing_review     |-> CountOf({i \in 1..Len(cols) : NeedsReview(cols[i])}),
     total_rows_processed       |-> Len(depts),
     departments_normalized     |-> CountOf({i \in 1..Len(depts) : IsNormalized(depts[i])}),
     departments_inferred       |-> CountOf({i \in 1..Len(depts) : IsInferred(depts[i])}),
     departments_needing_review |-> CountOf({i \in 1..Len(depts) : NeedsReview(depts[i])})]

BuildOutput(cols, mapping, depts) ==
    [column_classifications     |-> cols,
     column_mapping             |-> mapping,
     department_classifications |-> depts,
     statistics                 |-> Statistics(cols, depts)]

\* json.dump writes an int as its decimal digits and json.load reads them back
RECURSIVE ParseDigits(_)
ParseDigits(chars) ==
    IF chars = <<>> THEN 0
    ELSE 10 * ParseDigits(SubSeq(chars, 1, Len(chars) - 1))
         + (CHOOSE d \in 0..9 : Digit(d) = chars[Len(chars)])

json_dump(output) ==
    [column_classifications     |-> output.column_classifications,
     column_mapping             |-> output.column_mapping,
     department_classifications |-> output.department_classifications,
     statistics |-> [k \in DOMAIN output.statistics |-> Digits(output.statistics[k])]]

json_load(text) ==
    [column_classifications     |-> text.column_classifications,
     column_mapping             |-> text.column_mapping,
     department_classifications |-> text.department_classifications,
     statistics |-> [k \in DOMAIN text.statistics |-> ParseDigits(text.statistics[k])]]

\* json.dump raises TypeError on a value that is not JSON serializable; of
\* the values main puts in the report only 'original', a raw cell, can be one
Serializable(output) ==
    \A k \in 1..Len(output.department_classifications) :
        output.department_classifications[k]["original"].t # "int64"

\* what json.dump has passed to f.write before it raises: the keys are
\* written in order, so the two that precede department_classifications
json_dump_partial(output) ==
    [column_classifications |-> output.column_classifications,
     column_mapping         |-> output.column_mapping]

\* the output file: created by open(..., 'w') (which also truncates it),
\* written once json.dump has returned, text what it holds
NoFile == [created |-> FALSE, written |-> FALSE, text |-> <<>>]

(***************************************************************************)
(* A run of main (run_classifier.py).  pc is the step main is at;          *)
(* "failed" is sys.exit(1) from the except clause, and caught the          *)
(* exception that clause caught and the step that raised it (at step 0,    *)
(* the reason of the sys.exit(1) before the try block).  calls lists the   *)
(* invocations of the client so far: which entry point, for which column   *)
(* (1-based position) or row (position in rows_data), whether the client   *)
(* fell back to {OTHER, 0.0} and, for a row, the prompt it was given.      *)
(***************************************************************************)
FellBack(key, reply) ==
    reply.kind # "object" \/ key \notin DOMAIN reply.obj \/ "confidence" \notin DOMAIN reply.obj

NoException == [step |-> "none", exception |-> "none"]

\* except Exception as e: ... sys.exit(1)
Caught(step, exception) == [step |-> step, exception |-> exception]

Init ==
    /\ pc = "step0"
    /\ df \in Tables
    /\ column_classifications = <<>>
    /\ column_mapping = <<>>
    /\ rows_data = <<>>
    /\ department_classifications = <<>>
    /\ calls = <<>>
    /\ output_file = NoFile
    /\ caught = NoException
    /\ lib_call = [fn |-> "none"]

\* the checks before the try block: sys.exit(1) without an argument or
\* when the file does not exist
Step0_CheckArguments ==
    /\ pc = "step0"
    /\ \E invocation \in {"ok", "no_argument", "file_not_found"} :
         IF invocation = "ok"
         THEN pc' = "step1" /\ UNCHANGED caught
         ELSE pc' = "failed" /\ caught' = Caught("step0", invocation)
    /\ UNCHANGED <<df, column_classifications, column_mapping, rows_data,
                   department_classifications, calls, output_file, lib_call>>

\* STEP 1: read_file, which raises ValueError for an unknown extension and
\* for a file it cannot decode or parse, or else gives df; clean_dataframe
Step1_Clean ==
    /\ pc = "step1"
    /\ \E file \in {"ok", "unknown_extension", "undecodable", "unreadable"} :
         IF file = "ok"
         THEN df' = clean_dataframe(df) /\ pc' = "step2" /\ UNCHANGED caught
         ELSE UNCHANGED df /\ pc' = "failed" /\ caught' = Caught("step1", "ValueError")
    /\ UNCHANGED <<column_classifications, column_mapping, rows_data,
                   department_classifications, calls, output_file, lib_call>>

\* STEP 2: Llama3Client.__init__ raises RuntimeError when ollama.list() fails
Step2_InitClient ==
    /\ pc = "step2"
    /\ \E connected \in BOOLEAN :
         IF connected
         THEN pc' = "step3" /\ UNCHANGED caught
         ELSE pc' = "failed" /\ caught' = Caught("step2", "RuntimeError")
    /\ UNCHANGED <<df, column_classifications, column_mapping, rows_data,
                   department_classifications, calls, output_file, lib_call>>

\* variant: a call that fell back is made a second time
Step3_ClassifyColumn_Retry ==
    /\ pc = "step3"
    /\ Len(column_classifications) < NumColumns(df)
    /\ \E reply \in RunColumnReplies, drawn \in Draws(dropna(df.data[Len(column_classifications) + 1])) :
         LET i == Len(column_classifications) + 1
             r == process_column(df.data[i], df.columns[i], drawn, reply)
             call == [fn |-> "classify_column", item |-> i,
                      fell_back |-> FellBack("category", reply)]
         IN /\ calls' = IF ~r.called THEN calls
                        ELSE IF call.fell_back THEN calls \o <<call, call>>
                        ELSE Append(calls, call)
            /\ IF r.raised
               THEN /\ pc' = "failed"
                    /\ caught' = Caught("step3", "TypeError")
                    /\ UNCHANGED column_classifications
               ELSE /\ pc' = pc
                    /\ UNCHANGED caught
                    /\ column_classifications' =
                         Append(column_classifications,
                                DictSet(r.value, "original_name", df.columns[i]))
    /\ UNCHANGED <<df, column_mapping, rows_data, department_classifications,
                   output_file, lib_call>>

\* STEP 3: one iteration of the loop over df_clean.columns
Step3_ClassifyColumn ==
    /\ pc = "step3"
    /\ Len(column_classifications) < NumColumns(df)
    /\ \E reply \in RunColumnReplies, drawn \in Draws(dropna(df.data[Len(column_classifications) + 1])) :
         LET i == Len(column_classifications) + 1
             r == process_column(df.data[i], df.columns[i], drawn, reply)
         IN /\ calls' = IF r.called
                        THEN Append(calls, [fn |-> "classify_column", item |-> i,
                                            fell_back |-> FellBack("category", reply)])
                        ELSE calls
            /\ IF r.raised
               THEN /\ pc' = "failed"
                    /\ caught' = Caught("step3", "TypeError")
                    /\ UNCHANGED column_classifications
               ELSE /\ pc' = pc
                    /\ UNCHANGED caught
                    /\ column_classifications' =
                         Append(column_classifications,
                                DictSet(r.value, "original_name", df.columns[i]))
    /\ UNCHANGED <<df, column_mapping, rows_data, department_classifications,
                   output_file, lib_call>>

\* variant: the mapping is built as soon as one column is classified
Step4_BuildMapping_Early ==
    /\ pc = "step3"
    /\ Len(column_classifications) >= Min(1, NumColumns(df))
    /\ column_mapping' = BuildMapping(column_classifications)
    /\ rows_data' = extract_row_data(df,
                        MappedColumn(column_mapping', "title"),
                        MappedColumn(column_mapping', "description"),
                        MappedColumn(column_mapping', "department"))
    /\ pc' = "step5"
    /\ UNCHANGED <<df, column_classifications, department_classifications,
                   calls, output_file, caught, lib_call>>

\* STEP 4 and the head of STEP 5: the mapping, then extract_row_data
Step4_BuildMapping ==
    /\ pc = "step3"
    /\ Len(column_classifications) = NumColumns(df)
    /\ column_mapping' = BuildMapping(column_classifications)
    /\ rows_data' = extract_row_data(df,
                        MappedColumn(column_mapping', "title"),
                        MappedColumn(column_mapping', "description"),
                        MappedColumn(column_mapping', "department"))
    /\ pc' = "step5"
    /\ UNCHANGED <<df, column_classifications, department_classifications,
                   calls, output_file, caught, lib_call>>

\* STEP 5: one iteration of the loop over rows_data[:sample_size]
Step5_ClassifyRow ==
    /\ pc = "step5"
    /\ Len(department_classifications) < Min(ROW_SAMPLE_CAP, Len(rows_data))
    /\ \E reply \in RunDepartmentReplies :
         LET k   == Len(department_classifications) + 1
             row == rows_data[k]
             r   == process_department(row.row_index, row.department, row.title,
                                       row.description, reply)
         IN /\ calls' = Append(calls, [fn |-> "classify_department", item |-> k,
                                       fell_back |-> FellBack("department", reply),
                                       prompt |-> r.prompt])
            /\ IF r.raised
               THEN /\ pc' = "failed"
                    /\ caught' = Caught("step5", "TypeError")
                    /\ UNCHANGED department_classifications
               ELSE /\ pc' = pc
                    /\ UNCHANGED caught
                    /\ department_classifications' =
                         Append(department_classifications, r.value)
    /\ UNCHANGED <<df, column_classifications, column_mapping, rows_data,
                   output_file, lib_call>>

\* STEP 6: assemble the output, open the output file for writing and
\* json.dump the output into it
Step6_WriteReport ==
    /\ pc = "step5"
    /\ Len(department_classifications) = Min(ROW_SAMPLE_CAP, Len(rows_data))
    /\ LET output == BuildOutput(column_classifications, column_mapping,
                                 department_classifications)
       IN \E opened \in BOOLEAN :
            IF ~opened
            THEN /\ pc' = "failed"
                 /\ caught' = Caught("step6", "OSError")
                 /\ UNCHANGED output_file
            ELSE IF ~Serializable(output)
            THEN /\ pc' = "failed"
                 /\ caught' = Caught("step6", "TypeError")
                 /\ output_file' = [created |-> TRUE, written |-> FALSE,
                                    text |-> json_dump_partial(output)]
            ELSE /\ pc' = "done"
                 /\ UNCHANGED caught
                 /\ output_file' = [created |-> TRUE, written |-> TRUE,
                                    text |-> json_dump(output)]
    /\ UNCHANGED <<df, column_classifications, column_mapping, rows_data,
                   department_classifications, calls, lib_call>>

Next ==
    \/ Step0_CheckArguments
    \/ Step1_Clean
    \/ Step2_InitClient
    \/ Step3_ClassifyColumn
    \/ Step4_BuildMapping
    \/ Step5_ClassifyRow
    \/ Step6_WriteReport

Spec == Init /\ [][Next]_vars

\* a run of main on a long table
LongInit ==
    /\ pc = "step0"
    /\ df \in LongTables
    /\ column_classifications = <<>>
    /\ column_mapping = <<>>
    /\ rows_data = <<>>
    /\ department_classifications = <<>>
    /\ calls = <<>>
    /\ output_file = NoFile
    /\ caught = NoException
    /\ lib_call = [fn |-> "none"]

LongSpec == LongInit /\ [][Next]_vars

(***************************************************************************)
(* Direct calls of the library (csv_column_classifier.py is imported and   *)
(* its functions called by other scripts): lib_call holds the last call,   *)
(* its arguments, the reply the model gave and what the call produced.     *)
(***************************************************************************)
LibColumns == { [p \in 1..NRows |-> CellOf(kind, p)] : kind \in ColumnKinds }

\* the cell of a longer column in row r: all different, all the same, the
\* same text once as a string and once as a number, or with missing values
SampleCell(pattern, r) ==
    CASE pattern = "distinct" -> PyStr(<<"v">> \o Digits(r))
      [] pattern = "same"     -> PyStr(<<"x">>)
      [] pattern = "mixed"    -> IF r % 2 = 1 THEN PyFloat(7)
                                 ELSE PyStr(<<"7", ".", "0">>)
      [] OTHER                -> IF r % 3 = 2 THEN NaN
                                 ELSE PyStr(<<"v">> \o Digits(r))

LibSampleColumns ==
    { [p \in 1..n |-> SampleCell(pattern, p)] :
        n \in 5..NSampleRows,
        pattern \in {"distinct", "same", "mixed", "missing"} }

LibDepartmentValues ==
    { None, PyStr(<<>>), PyStr(<<" ">>), PyStr(<<" ", " ">>), PyStr(<<"I", "T">>),
      PyStr(<<" ", "I", "T", " ">>), PyFloat(0), PyFloat(7) }

LibTexts == { None, PyStr(<<>>), PyStr(<<"x">>) }

LibInit ==
    /\ pc = "lib"
    /\ df = MakeTable([c \in 1..NCols |-> "empty"])
    /\ column_classifications = <<>>
    /\ column_mapping = <<>>
    /\ rows_data = <<>>
    /\ department_classifications = <<>>
    /\ calls = <<>>
    /\ output_file = NoFile
    /\ caught = NoException
    /\ lib_call = [fn |-> "none"]

\* one call per behaviour: the functions keep no state between calls
LibUnchanged ==
    /\ pc' = "returned"
    /\ UNCHANGED <<df, column_classifications, column_mapping, rows_data,
                   department_classifications, calls, output_file, caught>>

LibClassifyColumn ==
    /\ pc = "lib"
    /\ \E reply \in ColumnReplies :
         lib_call' = [fn |-> "classify_column", reply |-> reply,
                      out |-> classify_column(reply)]
    /\ LibUnchanged

LibClassifyDepartment ==
    /\ pc = "lib"
    /\ \E reply \in DepartmentReplies :
         lib_call' = [fn |-> "classify_department", reply |-> reply,
                      out |-> classify_department(reply)]
    /\ LibUnchanged

LibProcessColumn ==
    /\ pc = "lib"
    /\ \E column \in LibColumns \cup LibSampleColumns, reply \in ColumnReplies :
         \E drawn \in Draws(dropna(column)) :
           lib_call' = [fn |-> "process_column", df_column |-> column,
                        drawn |-> drawn, reply |-> reply,
                        out |-> process_column(column, HeaderOf(1), drawn, reply)]
    /\ LibUnchanged

LibProcessDepartment ==
    /\ pc = "lib"
    /\ \E value \in LibDepartmentValues, title \in LibTexts, description \in LibTexts,
          reply \in DepartmentReplies :
         lib_call' = [fn |-> "process_department", department_value |-> value,
                      title |-> title, description |-> description, reply |-> reply,
                      out |-> process_department(0, value, title, description, reply)]
    /\ LibUnchanged

\* the cells a sheet's first row is made of
SheetCells == { NaN, PyFloat(7), PyStr(<<" ">>), PyStr(<<" ", "I", "d", " ">>) }

\* sheets of 1..NSheetCols columns: an optional empty row, a first row of
\* any cells, an optional row of numbers
Sheets ==
    UNION { { (IF blank THEN << [c \in 1..w |-> NaN] >> ELSE <<>>)
              \o << first >>
              \o (IF more THEN << [c \in 1..w |-> PyFloat(c)] >> ELSE <<>>) :
                first \in [1..w -> SheetCells], blank \in BOOLEAN, more \in BOOLEAN } :
            w \in 1..NSheetCols }

LibReadExcelFile ==
    /\ pc = "lib"
    /\ \E sheet \in Sheets :
         LET out == read_excel_file(sheet)
         IN lib_call' = [fn |-> "read_excel_file", sheet |-> sheet, out |-> out,
                         cleaned_names |-> clean_column_names(out.columns)]
    /\ LibUnchanged

LibNext ==
    \/ LibReadExcelFile
    \/ LibClassifyColumn
    \/ LibClassifyDepartment
    \/ LibProcessColumn
    \/ LibProcessDepartment

LibSpec == LibInit /\ [][LibNext]_vars

(***************************************************************************)
(* Properties.                                                             *)
(***************************************************************************)
LibProcessed(fn) == lib_call.fn = fn /\ ~lib_call.out.raised /\ lib_call.out.called

\* the reply is a JSON object holding both keys the entry point expects
HasBothKeys(reply, key) ==
    reply.kind = "object" /\ {key, "confidence"} \subseteq DOMAIN reply.obj

\* C1: whenever process_column or process_department has called the client
\* and the confidence it got back is below 0.6, the reported label (category,
\* resp. suggested) is "OTHER", needs_manual_review is true and the reason is
\* "Low confidence (<value>)", whatever label came back.
C1_ConfidenceGate ==
    /\ LibProcessed("process_column")
         /\ lib_call.out.value["confidence"].n < 60
       => /\ lib_call.out.value["category"] = "OTHER"
          /\ lib_call.out.value["needs_manual_review"] = TRUE
          /\ lib_call.out.value["reason"] =
               "Low confidence (" \o FloatRepr(lib_call.out.value["confidence"].n) \o ")"
    /\ LibProcessed("process_department")
         /\ lib_call.out.value["confidence"].n < 60
       => /\ lib_call.out.value["suggested"] = "OTHER"
          /\ lib_call.out.value["needs_manual_review"] = TRUE
          /\ lib_call.out.value["reason"] =
               "Low confidence (" \o FloatRepr(lib_call.out.value["confidence"].n) \o ")"

\* a reply {"department": "IT", "confidence": 0.59} has been gated to OTHER
C1_Witness ==
    /\ LibProcessed("process_department")
    /\ lib_call.reply = JsonObject(ReplyDict("department", "IT", JNum(59), FALSE))
    /\ lib_call.out.value["suggested"] = "OTHER"
    /\ lib_call.out.value["reason"] = "Low confidence (0.59)"

\* C2: whenever the client's reply has both keys and a confidence >= 0.6
\* (0.6 included), the reported category / suggested department is the label
\* of the reply, needs_manual_review is false and the result has no reason.
C2_PassThrough ==
    /\ LibProcessed("process_column")
         /\ HasBothKeys(lib_call.reply, "category")
         /\ lib_call.reply.obj["confidence"].n >= 60
       => /\ lib_call.out.value["category"] = lib_call.reply.obj["category"]
          /\ lib_call.out.value["needs_manual_review"] = FALSE
          /\ "reason" \notin DOMAIN lib_call.out.value
    /\ LibProcessed("process_department")
         /\ HasBothKeys(lib_call.reply, "department")
         /\ lib_call.reply.obj["confidence"].n >= 60
       => /\ lib_call.out.value["suggested"] = lib_call.reply.obj["department"]
          /\ lib_call.out.value["needs_manual_review"] = FALSE
          /\ "reason" \notin DOMAIN lib_call.out.value

ColumnIsEmpty(i) == \A p \in 1..NumRows(df) : ~NotNa(df.data[i][p])

\* C3: a column with no non-missing value is reported as exactly
\* {category OTHER, confidence 0.0, needs_manual_review true, reason "Column
\* is empty"} (plus its original_name), and the client is never invoked for it.
C3_EmptyColumn ==
    pc \notin {"step0", "step1", "step2"} =>
      \A i \in 1..NumColumns(df) :
        ColumnIsEmpty(i) =>
          /\ \A k \in 1..Len(calls) :
               ~(calls[k].fn = "classify_column" /\ calls[k].item = i)
          /\ i <= Len(column_classifications) =>
               column_classifications[i] =
                 [category |-> "OTHER", confidence |-> JNum(0),
                  needs_manual_review |-> TRUE, reason |-> "Column is empty",
                  original_name |-> df.columns[i]]

\* an empty column stands in a finished report next to one that was classified
C3_Witness ==
    /\ pc = "done"
    /\ \E i \in 1..NumColumns(df) : ColumnIsEmpty(i)
    /\ \E k \in 1..Len(calls) : calls[k].fn = "classify_column"

\* C4: classify_column and classify_department never raise; they return the
\* reply's object as it is when it holds both expected keys, and otherwise
\* (transport failure, not JSON, a key missing) {label "OTHER", confidence 0.0}.
C4_ClientFallback ==
    /\ lib_call.fn = "classify_column" =>
         /\ ~lib_call.out.raised
         /\ lib_call.out.value =
              IF HasBothKeys(lib_call.reply, "category")
              THEN lib_call.reply.obj
              ELSE [category |-> "OTHER", confidence |-> JNum(0)]
    /\ lib_call.fn = "classify_department" =>
         /\ ~lib_call.out.raised
         /\ lib_call.out.value =
              IF HasBothKeys(lib_call.reply, "department")
              THEN lib_call.reply.obj
              ELSE [department |-> "OTHER", confidence |-> JNum(0)]

\* a reply with the label but no confidence has been replaced by the fallback
C4_Witness ==
    /\ lib_call.fn = "classify_column"
    /\ lib_call.reply = JsonObject([x \in {"category"} |-> "OTHER"])
    /\ lib_call.out.value = [category |-> "OTHER", confidence |-> JNum(0)]

\* the report entry of the item a client call was made for
ReportedItem(call) ==
    IF call.fn = "classify_column"
    THEN column_classifications[call.item]
    ELSE department_classifications[call.item]

\* C5: whatever the replies (well-formed, malformed, keys missing, transport
\* failure), no exception raised while classifying reaches main's except
\* clause, and in a finished run every item whose call fell back is in the
\* report with needs_manual_review true.
C5_NeverAborts ==
    /\ caught.step \notin {"step3", "step5"}
    /\ pc = "done" =>
         \A k \in 1..Len(calls) :
           calls[k].fell_back => ReportedItem(calls[k])["needs_manual_review"] = TRUE

\* the original department value is there and not blank once trimmed
PresentAndNonBlank(value) == value.t # "none" /\ Strip(StrOf(value)) # <<>>

\* C6: for every processed row, source is "normalized" if and only if the
\* row's original department value is present and non-empty after trimming,
\* and "inferred_from_content" otherwise.
C6_Provenance ==
    \A k \in 1..Len(department_classifications) :
      department_classifications[k]["source"] =
        IF PresentAndNonBlank(rows_data[k].department)
        THEN "normalized" ELSE "inferred_from_content"

CategoriesSeen ==
    { column_classifications[i]["category"] : i \in 1..Len(column_classifications) }

\* the position of the last column that was given the category
LastColumnOf(category) ==
    CHOOSE i \in 1..Len(column_classifications) :
      /\ column_classifications[i]["category"] = category
      /\ \A j \in (i + 1)..Len(column_classifications) :
           column_classifications[j]["category"] # category

\* C7: once the mapping is built, its keys are exactly the categories other
\* than "OTHER" among the column classifications, and each key maps to the
\* header of the last column that was given that category.
C7_ColumnMapping ==
    (pc \in {"step5", "done"} \/ caught.step = "step5") =>
      /\ DOMAIN column_mapping = CategoriesSeen \ {"OTHER"}
      /\ \A category \in DOMAIN column_mapping :
           /\ column_mapping[category] = df.columns[LastColumnOf(category)]
           /\ column_mapping[category] =
                column_classifications[LastColumnOf(category)]["original_name"]

\* two columns were given the same category and the run has finished
C7_Witness ==
    /\ pc = "done"
    /\ \E i, j \in 1..Len(column_classifications) :
         /\ i < j
         /\ column_classifications[i]["category"] = "title"
         /\ column_classifications[j]["category"] = "title"
         /\ column_mapping["title"] = df.columns[j]
    /\ "OTHER" \notin DOMAIN column_mapping

\* C8: in a written report, read back with json.load, total_columns is the
\* length of column_classifications, columns_classified the number of entries
\* with a category other than "OTHER", columns_needing_review the number with
\* needs_manual_review true, total_rows_processed the length of
\* department_classifications; and these are the counts of the lists main held.
C8_StatisticsAgree ==
    output_file.written =>
      LET report == json_load(output_file.text)
          cols   == report.column_classifications
          depts  == report.department_classifications
      IN /\ report.statistics.total_columns = Len(cols)
         /\ report.statistics.columns_classified =
              Cardinality({i \in 1..Len(cols) : cols[i]["category"] # "OTHER"})
         /\ report.statistics.columns_needing_review =
              Cardinality({i \in 1..Len(cols) : cols[i]["needs_manual_review"] = TRUE})
         /\ report.statistics.total_rows_processed = Len(depts)
         /\ Len(cols) = Len(column_classifications)
         /\ Len(depts) = Len(department_classifications)
         /\ report.statistics.columns_classified =
              Cardinality({i \in 1..Len(column_classifications) :
                             column_classifications[i]["category"] # "OTHER"})
         /\ report.statistics.columns_needing_review =
              Cardinality({i \in 1..Len(column_classifications) :
                             column_classifications[i]["needs_manual_review"] = TRUE})

\* a report with a classified column, a column to review and a processed row
C8_Witness ==
    /\ output_file.written
    /\ json_load(output_file.text).statistics.columns_classified = 1
    /\ json_load(output_file.text).statistics.columns_needing_review = 1
    /\ json_load(output_file.text).statistics.total_rows_processed >= 1

\* C9: every column classification has a category among the 10 column
\* categories and every department classification a suggested department
\* among the 9 fixed departments.
C9_InsideTaxonomy ==
    /\ \A i \in 1..Len(column_classifications) :
         column_classifications[i]["category"] \in COLUMN_CATEGORIES
    /\ \A k \in 1..Len(department_classifications) :
         department_classifications[k]["suggested"] \in FIXED_DEPARTMENTS

InUnitRange(conf) == conf.t = "num" /\ 0 <= conf.n /\ conf.n <= 100

\* C10: every column and department classification has a confidence that is
\* a number in [0,1], and a reply whose confidence is not such a number never
\* aborts the run.
C10_ConfidenceInRange ==
    /\ \A i \in 1..Len(column_classifications) :
         InUnitRange(column_classifications[i]["confidence"])
    /\ \A k \in 1..Len(department_classifications) :
         InUnitRange(department_classifications[k]["confidence"])
    /\ caught.exception # "TypeError"

\* C11: a run that ends with a fatal error (exit status 1) has not created,
\* truncated or partly written the output file.
C11_NoReportOnFatal ==
    pc = "failed" => ~output_file.created

IsDepartmentCall(call) == call.fn = "classify_department"

\* the calls of the department client, in the order they were made
DepartmentCalls == SelectSeq(calls, IsDepartmentCall)

\* the rows (positions in rows_data) the department client was called for
DepartmentCallItems ==
    {calls[k].item : k \in {j \in 1..Len(calls) : calls[j].fn = "classify_department"}}

\* C12: a run classifies the departments of the first min(5, n) rows of the
\* cleaned table, in table order, and of no other row; the report's
\* department_classifications has min(5, n) entries and its i-th entry
\* carries the index label of the i-th table row.
C12_RowCap ==
    /\ DepartmentCallItems \subseteq 1..Min(5, NumRows(df))
    /\ \A j \in 1..Len(DepartmentCalls) : DepartmentCalls[j].item = j
    /\ \A i \in 1..Len(department_classifications) :
         department_classifications[i]["row"] = df.index[i]
    /\ pc = "done" =>
         /\ DepartmentCallItems = 1..Min(5, NumRows(df))
         /\ Len(json_load(output_file.text).department_classifications)
              = Min(5, NumRows(df))

\* a report on a table of more than five rows whose index has gaps
C12_Witness ==
    /\ pc = "done"
    /\ NumRows(df) > 5
    /\ df.index[5] # 4
    /\ Len(department_classifications) = 5

RequiredRoles == {"title", "description", "department"}

UnmappedRoles == RequiredRoles \ DOMAIN column_mapping

AfterStep4 == pc \in {"step5", "done"} \/ caught.step \in {"step5", "step6"}

IsColumnCall(call) == call.fn = "classify_column"

\* the calls of the column client, in the order they were made
ColumnCalls == SelectSeq(calls, IsColumnCall)

AfterStep3 == pc \in {"step5", "done"} \/ caught.step \in {"step5", "step6"}

\* C14: the client is invoked exactly once for each column that has a value
\* and exactly once for each processed row, in order; a call that falls
\* back is not repeated, its item gets the fallback result and the next call
\* is for the next item.
C14_NoRetries ==
    /\ \A j, k \in 1..Len(ColumnCalls) :
         j < k => ColumnCalls[j].item < ColumnCalls[k].item
    /\ \A j \in 1..Len(DepartmentCalls) : DepartmentCalls[j].item = j
    /\ \A j \in 1..Len(ColumnCalls) : ~ColumnIsEmpty(ColumnCalls[j].item)
    /\ AfterStep3 =>
         {ColumnCalls[j].item : j \in 1..Len(ColumnCalls)}
           = {i \in 1..NumColumns(df) : ~ColumnIsEmpty(i)}
    /\ pc = "done" =>
         Len(DepartmentCalls) = Len(department_classifications)
    /\ \A j \in 1..Len(ColumnCalls) :
         (ColumnCalls[j].fell_back
            /\ ColumnCalls[j].item <= Len(column_classifications)) =>
           /\ column_classifications[ColumnCalls[j].item]["category"] = "OTHER"
           /\ column_classifications[ColumnCalls[j].item]["confidence"] = JNum(0)
    /\ \A j \in 1..Len(DepartmentCalls) :
         (DepartmentCalls[j].fell_back
            /\ j <= Len(department_classifications)) =>
           /\ department_classifications[j]["suggested"] = "OTHER"
           /\ department_classifications[j]["confidence"] = JNum(0)

\* a finished run in which a column call fell back, a later column was
\* classified, and a row call fell back before a later row was classified
C14_Witness ==
    /\ pc = "done"
    /\ \E j, k \in 1..Len(ColumnCalls) :
         j < k /\ ColumnCalls[j].fell_back /\ ~ColumnCalls[k].fell_back
    /\ \E j, k \in 1..Len(DepartmentCalls) :
         j < k /\ DepartmentCalls[j].fell_back /\ ~DepartmentCalls[k].fell_back

\* the distinct strings of a list of values
DistinctStrings(values) == {StrOf(values[p]) : p \in 1..Len(values)}

\* C15 as stated: for a column with at least 5 non-missing values the
\* sample in the prompt has exactly min(10, number of distinct stringified
\* non-missing values) elements, whatever the draw.
C15_SampleSize ==
    (lib_call.fn = "process_column" /\ Len(dropna(lib_call.df_column)) >= 5) =>
      Cardinality(lib_call.out.sample_values)
        = Min(10, Cardinality(DistinctStrings(dropna(lib_call.df_column))))

\* C15 amended: for a column with at least 5 non-missing values the sample
\* has at most min(10, number of distinct stringified non-missing values)
\* elements and at least as many as there are distinct strings among the
\* first five; the string of each of the first five and of each drawn
\* value is in it, and every element is the string of a non-missing value.
C15_SampleSizeBounds ==
    (lib_call.fn = "process_column" /\ Len(dropna(lib_call.df_column)) >= 5) =>
      LET non_null == dropna(lib_call.df_column)
          head == DistinctStrings(SubSeq(non_null, 1, 5))
      IN /\ Cardinality(lib_call.out.sample_values)
              <= Min(10, Cardinality(DistinctStrings(non_null)))
         /\ Cardinality(lib_call.out.sample_values) >= Cardinality(head)
         /\ head \subseteq lib_call.out.sample_values
         /\ \A p \in lib_call.drawn :
              StrOf(non_null[p]) \in lib_call.out.sample_values
         /\ lib_call.out.sample_values \subseteq DistinctStrings(non_null)

\* a draw that brings a string into the sample that the first five lack,
\* from a column whose sample is still smaller than its distinct strings
C15_Witness ==
    /\ lib_call.fn = "process_column"
    /\ Len(dropna(lib_call.df_column)) > 5
    /\ Cardinality(lib_call.out.sample_values) > 5
    /\ Cardinality(lib_call.out.sample_values)
         < Cardinality(DistinctStrings(dropna(lib_call.df_column)))

\* the rows of a sheet that hold a value
NonEmptyRows(sheet) == SelectSeq(sheet, RowHasValue)

\* more than 50% of the cells of the row are non-empty strings
MostlyStrings(row) ==
    2 * Cardinality({idx \in 1..Len(row) : IsStr(row[idx]) /\ row[idx].s # <<>>})
      > Len(row)

\* C16 as stated: the first non-empty row of a sheet is taken as the header
\* exactly when more than half of its cells are non-empty strings; when it
\* is not, no row is consumed and every column is named Column_<index>.
C16_HeaderDetection ==
    (lib_call.fn = "read_excel_file" /\ ~lib_call.out.raised) =>
      LET rows == NonEmptyRows(lib_call.sheet)
      IN /\ lib_call.out.header <=> MostlyStrings(rows[1])
         /\ ~lib_call.out.header =>
              /\ lib_call.out.rows = rows
              /\ \A c \in 1..Len(lib_call.out.columns) :
                   lib_call.out.columns[c] = ColumnLabel(c - 1)

\* C16 amended: the first non-empty row is taken as the header exactly when
\* more than half of its cells are strings (whitespace-only ones included);
\* then it is consumed and a column is named after its stripped cell, or
\* Column_<index> when the cell is not a non-blank string.  Otherwise no row
\* is consumed and the columns keep the integer labels 0, 1, ..., which
\* clean_dataframe turns into the strings "0", "1", ...
C16_HeaderDetectionDefaultNames ==
    (lib_call.fn = "read_excel_file" /\ ~lib_call.out.raised) =>
      LET rows == NonEmptyRows(lib_call.sheet)
      IN /\ lib_call.out.header <=> MostlyStrings(rows[1])
         /\ lib_call.out.header =>
              /\ lib_call.out.rows = Tail(rows)
              /\ \A c \in 1..Len(lib_call.out.columns) :
                   lib_call.out.columns[c] \in
                     {PyStr(Strip(rows[1][c].s)), ColumnLabel(c - 1)}
              /\ \A c \in 1..Len(lib_call.out.columns) :
                   lib_call.out.columns[c] = ColumnLabel(c - 1)
                     <=> (~IsStr(rows[1][c]) \/ Strip(rows[1][c].s) = <<>>)
         /\ ~lib_call.out.header =>
              /\ lib_call.out.rows = rows
              /\ \A c \in 1..Len(lib_call.out.columns) :
                   /\ lib_call.out.columns[c] = PyInt(c - 1)
                   /\ lib_call.cleaned_names[c] = Digits(c - 1)

\* a sheet with a string in its first row that was read without a header
C16_Witness ==
    /\ lib_call.fn = "read_excel_file"
    /\ ~lib_call.out.raised
    /\ ~lib_call.out.header
    /\ \E c \in 1..Len(lib_call.sheet[1]) : IsStr(lib_call.sheet[1][c])
    /\ Len(lib_call.out.rows) = 2

\* the order of the phases, in a state
C17_Phases ==
    /\ (column_mapping # <<>> \/ rows_data # <<>> \/ pc \in {"step5", "done"}) =>
         Len(column_classifications) = NumColumns(df)
    /\ DepartmentCalls # <<>> =>
         /\ Len(column_classifications) = NumColumns(df)
         /\ column_mapping = BuildMapping(column_classifications)
         /\ Len(rows_data) = NumRows(df)
    /\ output_file.created =>
         /\ Len(department_classifications) = Min(5, Len(rows_data))
         /\ Len(DepartmentCalls) = Len(department_classifications)
    /\ \A j, k \in 1..Len(calls) :
         (j < k /\ IsDepartmentCall(calls[j])) => ~IsColumnCall(calls[k])

\* the order of the phases, in a step
C17_Steps ==
    /\ DepartmentCalls # <<>> =>
         UNCHANGED <<column_classifications, column_mapping, rows_data>>
    /\ output_file.created => UNCHANGED <<calls, department_classifications>>
    /\ output_file' # output_file =>
         (pc = "step5" /\ UNCHANGED <<calls, department_classifications>>)

\* C17: every column is classified before the column mapping is built, the
\* mapping is complete before the first department call, the report file is
\* opened only after the last department classification, and no column is
\* classified after the first department call.
C17_PhaseOrder == []C17_Phases /\ [][C17_Steps]_vars

\* a finished run that called the client for a column and for a row and
\* built a mapping with an entry
C17_Witness ==
    /\ pc = "done"
    /\ output_file.created
    /\ ColumnCalls # <<>>
    /\ DepartmentCalls # <<>>
    /\ column_mapping # <<>>

\* C18: in a written report departments_normalized + departments_inferred
\* is total_rows_processed; no column is counted both as classified and as
\* needing review, so the two counts add up to at most total_columns; and
\* column_mapping has at most columns_classified keys, exactly that many
\* when no two columns share a category other than OTHER.
C18_StatisticsPartition ==
    output_file.written =>
      LET report == json_load(output_file.text)
          cols   == report.column_classifications
          st     == report.statistics
          shared == \E i, j \in 1..Len(cols) :
                       /\ i # j
                       /\ cols[i]["category"] # "OTHER"
                       /\ cols[i]["category"] = cols[j]["category"]
      IN /\ st.departments_normalized + st.departments_inferred
              = st.total_rows_processed
         /\ \A i \in 1..Len(cols) :
              ~(cols[i]["category"] # "OTHER" /\ cols[i]["needs_manual_review"])
         /\ st.columns_classified + st.columns_needing_review <= st.total_columns
         /\ Cardinality(DOMAIN report.column_mapping) <= st.columns_classified
         /\ Cardinality(DOMAIN report.column_mapping) = st.columns_classified
              <=> ~shared

\* a report in which two columns share a category and rows of both
\* provenances were processed
C18_Witness ==
    /\ output_file.written
    /\ json_load(output_file.text).statistics.columns_classified = 2
    /\ Cardinality(DOMAIN json_load(output_file.text).column_mapping) = 1
    /\ json_load(output_file.text).statistics.departments_normalized >= 1
    /\ json_load(output_file.text).statistics.departments_inferred >= 1

\* C19: for every original department value (absent, empty, whitespace
\* only, non-blank, or not a string) the department prompt is in the
\* "normalize and map" mode, showing the value, exactly when the result's
\* source is "normalized", and in the "infer from content" mode, showing
\* [EMPTY], exactly when the source is "inferred_from_content"; in both modes
\* an absent title or description is rendered as N/A.
C19_PromptMode ==
    (LibProcessed("process_department") /\ ~lib_call.out.raised) =>
      LET prompt == lib_call.out.prompt
          source == lib_call.out.value["source"]
      IN /\ prompt.task_type \in {"normalize and map", "infer from content"}
         /\ prompt.task_type = "normalize and map" <=> source = "normalized"
         /\ prompt.task_type = "infer from content" <=> source = "inferred_from_content"
         /\ prompt.task_type = "infer from content"
              <=> prompt.original = <<"[", "E", "M", "P", "T", "Y", "]">>
         /\ prompt.task_type = "normalize and map" =>
              prompt.original = <<"\"">> \o StrOf(lib_call.department_value) \o <<"\"">>
         /\ lib_call.title = None => prompt.title = <<"N", "/", "A">>
         /\ lib_call.description = None => prompt.description = <<"N", "/", "A">>

\* a whitespace-only department value with an absent title, prompted in the
\* infer mode
C19_Witness ==
    /\ LibProcessed("process_department")
    /\ ~lib_call.out.raised
    /\ lib_call.department_value = PyStr(<<" ">>)
    /\ lib_call.title = None
    /\ lib_call.description = PyStr(<<"x">>)
    /\ lib_call.out.prompt.task_type = "infer from content"

====
